---- MODULE Spec2Model ----
(***************************************************************************)
(* Launch orchestration core of the wandb client: wandb/sdk/launch/launch.py *)
(*   run / _run / _wait_for   the supervisor of one ad-hoc launch            *)
(*   push_to_queue            the ad-hoc push to a run queue                 *)
(*   run_agent                the entry point of the launch agent            *)
(* One client process performs one of the three operations per behaviour.   *)
(* KeyboardInterrupt is an asynchronous event of the environment and may be *)
(* delivered at any position of run().                                      *)
(***************************************************************************)
EXTENDS Integers, Sequences, FiniteSets, TLC

VARIABLES
    op,                 \* which entry point the client called: none/run/push/agent
    pc,                 \* position of the client inside that entry point
    args,               \* the arguments of the call
    docker_args,        \* run(): the local variable docker_args
    injected,           \* run(): the (key, value) pairs run() itself assigned
    runner_config,      \* _run(): the mapping handed to loader.load_backend
    backend,            \* _run(): what loader.load_backend returned
    submitted_run_obj,  \* run(): the handle backend.run returned (0: none yet)
    handles,            \* state of every RunHandle, by handle id
    observed,           \* what wait() returned to the waiter: none/True/False
    log,                \* the calls made so far, in order: <<name, handle id>>
    exc,                \* the exception that left the entry point
    outcome,            \* none / returned / raised
    retval,             \* run(): the handle id returned to the caller
    caught,             \* _wait_for: the interrupt its except clause caught
    interrupts,         \* number of KeyboardInterrupts delivered so far
    caller_cancels,     \* cancel() calls made by the owner after run() returned
    api_result,         \* push_to_queue: outcome of api.push_to_run_queue
    printed,            \* push_to_queue: what was printed
    push_res,           \* push_to_queue: the value returned to the caller
    queue,              \* agent: the items the queue service still holds
    enqueued,           \* agent: number of items ever put on the queue
    current,            \* agent: the item dequeued and being dispatched (0: none)
    inflight,           \* agent: the in-flight set, pairs <<item, handle id>>
    submissions,        \* agent: per item, how many handles it was turned into
    dropped,            \* agent: items whose dispatch failed
    backoff             \* agent: current backoff level between polls

vars == <<op, pc, args, docker_args, injected, runner_config, backend,
          submitted_run_obj, handles, observed, log, exc, outcome, retval,
          caught, interrupts, caller_cancels, api_result, printed, push_res,
          queue, enqueued, current, inflight, submissions, dropped, backoff>>

runVars == <<docker_args, injected, runner_config, backend, submitted_run_obj,
             observed, retval, caught, interrupts, caller_cancels>>
pushVars == <<api_result, printed, push_res>>
agentVars == <<queue, enqueued, current, inflight, submissions, dropped, backoff>>

---------------------------------------------------------------------------
\* Bounds of the model

MaxInterrupts == 2
MaxHandles == 2
MaxItems == 2
MaxBackoff == 2
MaxCallerCancels == 2

---------------------------------------------------------------------------
\* Values

Range(s) == {s[i] : i \in DOMAIN s}

Count(s, x) == Cardinality({i \in DOMAIN s : s[i] = x})

EmptyMap == <<>>

\* DictSet that keeps the value of a key already there (setdefault)
DictSet_setdefault(d, k, v) ==
    [x \in (DOMAIN d) \cup {k} |-> IF x \in DOMAIN d THEN d[x] ELSE v]

\* d[k] = v of a Python dict held as a function
DictSet(d, k, v) == [x \in (DOMAIN d) \cup {k} |-> IF x = k THEN v ELSE d[x]]

HandleIds == 1 .. MaxHandles

Terminal == {"Succeeded", "Failed", "Cancelled"}

NoExc == [kind |-> "none", msg |-> <<>>, id |-> 0]

Exc(kind, msg) == [kind |-> kind, msg |-> msg, id |-> 0]

\* Truthy that only takes False for false ("is not False")
Truthy_not_false(v) == v # "False"

\* Python truthiness of the synchronous argument (True / False / None)
Truthy(v) == v = "True"

PROJECT_SYNCHRONOUS == "SYNCHRONOUS"

PROJECT_DOCKER_ARGS == "DOCKER_ARGS"

---------------------------------------------------------------------------
\* Collaborators of launch.py

\* loader.WANDB_RUNNERS.keys(): the registered backend names, in dict order
WANDB_RUNNERS == <<"local", "container", "cluster">>

\* loader.load_backend: the backend registered under the name, or null
load_backend(resource) ==
    IF resource \in Range(WANDB_RUNNERS) THEN resource ELSE "null"

LocalBaseUrls == {"http://localhost:8080"}

\* utils._is_wandb_local_uri: is the base url a locally hosted service
is_wandb_local_uri(url) == url \in LocalBaseUrls

\* HandleAfterCancel that marks the run cancelled whatever its state
HandleAfterCancel_always(st) == "Cancelled"

\* AbstractRun.cancel(): terminates a non-terminal run, no-op on a terminal one
HandleAfterCancel(st) ==
    IF st \in {"Submitted", "Running"} THEN "Cancelled" ELSE st

\* AbstractRun.wait(): the boolean wait() returns for a terminal run
WaitResult(st) == IF st = "Succeeded" THEN "True" ELSE "False"

---------------------------------------------------------------------------
\* Inputs

Synchronous == {"True", "False", "None"}

Resources == {"local", "cluster", "nonexistent", "Local"}

Platforms == {"linux", "linux2", "win32", "darwin"}

BaseUrls == {"http://localhost:8080", "https://api.wandb.ai"}

\* the caller's docker_args: None, or a dict
CallerDockerArgs ==
    { [none |-> TRUE, map |-> EmptyMap],
      [none |-> FALSE, map |-> EmptyMap],
      [none |-> FALSE, map |-> ("rm" :> "true")],
      [none |-> FALSE, map |-> ("network" :> "bridge" @@ "rm" :> "true")],
      [none |-> FALSE, map |-> ("net" :> "none" @@ "add-host" :> "db:10.0.0.2")] }

RunArgs ==
    [synchronous : Synchronous, resource : Resources, platform : Platforms,
     base_url : BaseUrls, docker_args : CallerDockerArgs]

---------------------------------------------------------------------------
\* Initial state: the client has called nothing

Init ==
    /\ op = "none"
    /\ pc = "idle"
    /\ args = [none |-> TRUE]
    /\ docker_args = EmptyMap
    /\ injected = {}
    /\ runner_config = EmptyMap
    /\ backend = "null"
    /\ submitted_run_obj = 0
    /\ handles = [h \in HandleIds |-> "none"]
    /\ observed = "none"
    /\ log = <<>>
    /\ exc = NoExc
    /\ outcome = "none"
    /\ retval = 0
    /\ caught = [id |-> 0, at |-> "none"]
    /\ interrupts = 0
    /\ caller_cancels = 0
    /\ api_result = [kind |-> "none", value |-> "None"]
    /\ printed = <<>>
    /\ push_res = "unset"
    /\ queue = <<>>
    /\ enqueued = 0
    /\ current = 0
    /\ inflight = {}
    /\ submissions = [i \in {} |-> 0]
    /\ dropped = {}
    /\ backoff = 0

\* an exception leaves the entry point
Raise(e) ==
    /\ exc' = e
    /\ outcome' = "raised"
    /\ pc' = "done"

Called(name, h) == log' = Append(log, <<name, h>>)

---------------------------------------------------------------------------
\* run(): lines 158-191, with _run (59-87) and _wait_for (194-206) inlined

CallRun ==
    /\ op = "none"
    /\ \E a \in RunArgs : args' = a
    /\ op' = "run"
    /\ pc' = "docker_args"
    /\ UNCHANGED <<runVars, handles, log, exc, outcome, pushVars, agentVars>>

\* NetworkArgs that tests the platform against "windows" instead of "win32"
NetworkArgs_windows(platform, local) ==
    IF local
    THEN (IF platform = "windows"
          THEN << <<"net", "host">> >>
          ELSE << <<"network", "host">> >>)
         \o
         (IF platform = "linux" \/ platform = "linux2"
          THEN << <<"add-host", "host.docker.internal:host-gateway">> >>
          ELSE << >>)
    ELSE << >>

\* lines 160-166: the assignments run() makes to docker_args, in order
NetworkArgs(platform, local) ==
    IF local
    THEN (IF platform = "win32"
          THEN << <<"net", "host">> >>
          ELSE << <<"network", "host">> >>)
         \o
         (IF platform = "linux" \/ platform = "linux2"
          THEN << <<"add-host", "host.docker.internal:host-gateway">> >>
          ELSE << >>)
    ELSE << >>

RECURSIVE ApplyWrites(_, _)
ApplyWrites(d, ws) ==
    IF ws = << >> THEN d
    ELSE ApplyWrites(DictSet(d, ws[1][1], ws[1][2]), Tail(ws))

\* lines 158-169
run_docker_args ==
    /\ op = "run" /\ pc = "docker_args"
    /\ LET d0 == IF args.docker_args.none THEN EmptyMap ELSE args.docker_args.map
           ws == NetworkArgs(args.platform, is_wandb_local_uri(args.base_url))
       IN /\ docker_args' = ApplyWrites(d0, ws)
          /\ injected' = Range(ws)
    /\ pc' = "construct"
    /\ UNCHANGED <<op, args, runner_config, backend, submitted_run_obj, handles,
                   observed, log, exc, outcome, retval, caught, interrupts,
                   caller_cancels, pushVars, agentVars>>

\* Stage whose failure is recorded but does not stop _run
Stage_failure_ignored(here, name, next) ==
    /\ op = "run" /\ pc = here
    /\ Called(name, 0)
    /\ pc' = next
    /\ \E ok \in BOOLEAN :
          IF ok
          THEN UNCHANGED exc
          ELSE exc' = Exc("LaunchException", <<"ValidationError", name>>)
    /\ UNCHANGED <<op, args, runVars, handles, outcome, pushVars, agentVars>>

\* a stage of _run that either returns or raises a validation error
Stage(here, name, next) ==
    /\ op = "run" /\ pc = here
    /\ Called(name, 0)
    /\ \E ok \in BOOLEAN :
          IF ok
          THEN /\ pc' = next
               /\ UNCHANGED <<exc, outcome>>
          ELSE Raise(Exc("LaunchException", <<"ValidationError", name>>))
    /\ UNCHANGED <<op, args, runVars, handles, pushVars, agentVars>>

\* lines 59-69
construct_run_spec == Stage("construct", "construct_run_spec", "create")

\* line 70
create_project_from_spec == Stage("create", "create_project_from_spec", "fetch")

\* line 71
fetch_and_validate_project == Stage("fetch", "fetch_and_validate_project", "load")

\* ", ".join(names)
RECURSIVE Join(_, _)
Join(names, sep) ==
    IF Len(names) = 0 THEN << >>
    ELSE IF Len(names) = 1 THEN <<names[1]>>
    ELSE <<names[1], sep>> \o Join(Tail(names), sep)

\* UnavailableBackendMessage that joins the registry without its last key
UnavailableBackendMessage_short(resource) ==
    <<"Unavailable backend ", resource, ", available backends: ">>
        \o Join(SubSeq(WANDB_RUNNERS, 1, Len(WANDB_RUNNERS) - 1), ", ")

\* lines 83-87: the message of the ExecutionException, as its pieces in order
UnavailableBackendMessage(resource) ==
    <<"Unavailable backend ", resource, ", available backends: ">>
        \o Join(WANDB_RUNNERS, ", ")

\* RunnerConfig that leaves the synchronous key out
RunnerConfig_no_synchronous(synchronous, dargs) ==
    DictSet(EmptyMap, PROJECT_DOCKER_ARGS, dargs)

\* lines 73-76
RunnerConfig(synchronous, dargs) ==
    DictSet(DictSet(EmptyMap, PROJECT_SYNCHRONOUS, synchronous),
            PROJECT_DOCKER_ARGS, dargs)

\* lines 73-79, 82-87
run_load_backend ==
    /\ op = "run" /\ pc = "load"
    /\ runner_config' = RunnerConfig(args.synchronous, docker_args)
    /\ backend' = load_backend(args.resource)
    /\ Called("load_backend", 0)
    /\ IF backend' # "null"
       THEN /\ pc' = "submit"
            /\ UNCHANGED <<exc, outcome>>
       ELSE Raise(Exc("ExecutionException", UnavailableBackendMessage(args.resource)))
    /\ UNCHANGED <<op, args, docker_args, injected, submitted_run_obj, handles,
                   observed, retval, caught, interrupts, caller_cancels,
                   pushVars, agentVars>>

\* backend_run that submits again when the submission raised
backend_run_retried ==
    /\ op = "run" /\ pc = "submit"
    /\ \/ \E h \in HandleIds :
            /\ handles[h] = "none"
            /\ handles' = [handles EXCEPT ![h] = "Submitted"]
            /\ submitted_run_obj' = h
            /\ Called("backend.run", h)
            /\ pc' = "mode"
       \/ /\ Called("backend.run", 0)
          /\ UNCHANGED <<handles, submitted_run_obj, pc>>
    /\ UNCHANGED <<op, args, docker_args, injected, runner_config, backend,
                   observed, retval, caught, interrupts, caller_cancels,
                   exc, outcome, pushVars, agentVars>>

\* lines 80-81: backend.run(project) returns a new handle, or raises
backend_run ==
    /\ op = "run" /\ pc = "submit"
    /\ \/ \E h \in HandleIds :
            /\ handles[h] = "none"
            /\ handles' = [handles EXCEPT ![h] = "Submitted"]
            /\ submitted_run_obj' = h
            /\ Called("backend.run", h)
            /\ pc' = "mode"
            /\ UNCHANGED <<exc, outcome>>
       \/ /\ Called("backend.run", 0)
          /\ Raise(Exc("ExecutionException", <<"SubmissionFailure">>))
          /\ UNCHANGED <<handles, submitted_run_obj>>
    /\ UNCHANGED <<op, args, docker_args, injected, runner_config, backend,
                   observed, retval, caught, interrupts, caller_cancels,
                   pushVars, agentVars>>

\* run_synchronous_check that waits whatever the mode
run_synchronous_check_always_waits ==
    /\ op = "run" /\ pc = "mode"
    /\ Called("synchronous?", submitted_run_obj)
    /\ pc' = "wait_enter"
    /\ UNCHANGED <<op, args, runVars, handles, exc, outcome, pushVars, agentVars>>

\* lines 187-190
run_synchronous_check ==
    /\ op = "run" /\ pc = "mode"
    /\ Called("synchronous?", submitted_run_obj)
    /\ IF Truthy(args.synchronous)
       THEN /\ pc' = "wait_enter"
            /\ UNCHANGED <<exc, outcome>>
       ELSE Raise(Exc("LaunchException", <<"Non synchronous mode not supported">>))
    /\ UNCHANGED <<op, args, runVars, handles, pushVars, agentVars>>

\* lines 188, 194-199: _wait_for enters its try block and calls wait()
wait_for_call_wait ==
    /\ op = "run" /\ pc = "wait_enter"
    /\ Called("wait", submitted_run_obj)
    /\ pc' = "wait"
    /\ UNCHANGED <<op, args, runVars, handles, exc, outcome, pushVars, agentVars>>

\* line 199: wait() returns once the run is terminal
wait_returns ==
    /\ op = "run" /\ pc = "wait"
    /\ handles[submitted_run_obj] \in Terminal
    /\ observed' = WaitResult(handles[submitted_run_obj])
    /\ pc' = "waited"
    /\ UNCHANGED <<op, args, docker_args, injected, runner_config, backend,
                   submitted_run_obj, handles, log, exc, outcome, retval, caught,
                   interrupts, caller_cancels, pushVars, agentVars>>

\* wait_raises under a bare except: any exception of wait() reaches the handler
wait_raises_cancelled ==
    /\ op = "run" /\ pc = "wait"
    /\ pc' = "except"
    /\ exc' = Exc("CommError", <<"wait failed">>)
    /\ UNCHANGED <<op, args, runVars, handles, log, outcome, pushVars, agentVars>>

\* line 199: wait() raises an exception that is no KeyboardInterrupt
wait_raises ==
    /\ op = "run" /\ pc = "wait"
    /\ Raise(Exc("CommError", <<"wait failed">>))
    /\ UNCHANGED <<op, args, runVars, handles, log, pushVars, agentVars>>

\* wait_for_result that ignores what wait() returned
wait_for_result_ignored ==
    /\ op = "run" /\ pc = "waited"
    /\ pc' = "return"
    /\ UNCHANGED <<op, args, runVars, handles, log, exc, outcome, pushVars,
                   agentVars>>

\* lines 199-202
wait_for_result ==
    /\ op = "run" /\ pc = "waited"
    /\ IF observed = "True"
       THEN /\ pc' = "return"
            /\ UNCHANGED <<exc, outcome>>
       ELSE Raise(Exc("ExecutionException", <<"Submitted run failed">>))
    /\ UNCHANGED <<op, args, runVars, handles, log, pushVars, agentVars>>

\* line 191
run_return ==
    /\ op = "run" /\ pc = "return"
    /\ retval' = submitted_run_obj
    /\ outcome' = "returned"
    /\ pc' = "done"
    /\ UNCHANGED <<op, args, docker_args, injected, runner_config, backend,
                   submitted_run_obj, handles, observed, log, exc, caught,
                   interrupts, caller_cancels, pushVars, agentVars>>

RunPcs == {"docker_args", "construct", "create", "fetch", "load", "submit",
           "mode", "wait_enter", "wait", "waited", "return", "except",
           "cancelling"}

\* lines 198-203: the positions the try block of _wait_for covers
InTry(p) == p \in {"wait", "waited"}

\* a KeyboardInterrupt is delivered to the thread running run()
KeyboardInterrupt ==
    /\ op = "run" /\ pc \in RunPcs
    /\ interrupts < MaxInterrupts
    /\ interrupts' = interrupts + 1
    /\ IF InTry(pc)
       THEN /\ caught' = [id |-> interrupts + 1, at |-> pc]
            /\ pc' = "except"
            /\ UNCHANGED <<exc, outcome>>
       ELSE /\ Raise([kind |-> "KeyboardInterrupt", msg |-> << >>,
                      id |-> interrupts + 1])
            /\ UNCHANGED caught
    /\ UNCHANGED <<op, args, docker_args, injected, runner_config, backend,
                   submitted_run_obj, handles, observed, log, retval,
                   caller_cancels, pushVars, agentVars>>

\* lines 203-205: the except clause logs and calls cancel()
wait_for_cancel ==
    /\ op = "run" /\ pc = "except"
    /\ Called("cancel", submitted_run_obj)
    /\ pc' = "cancelling"
    /\ UNCHANGED <<op, args, runVars, handles, exc, outcome, pushVars, agentVars>>

\* wait_for_reraise without its raise: the except clause ends and _wait_for returns
wait_for_reraise_swallowed ==
    /\ op = "run" /\ pc = "cancelling"
    /\ handles' = [handles EXCEPT ![submitted_run_obj] = HandleAfterCancel(@)]
    /\ Called("cancel returned", submitted_run_obj)
    /\ pc' = "return"
    /\ UNCHANGED <<op, args, runVars, exc, outcome, pushVars, agentVars>>

\* lines 205-206: cancel() completes and the caught interrupt is re-raised
wait_for_reraise ==
    /\ op = "run" /\ pc = "cancelling"
    /\ handles' = [handles EXCEPT ![submitted_run_obj] = HandleAfterCancel(@)]
    /\ Called("cancel returned", submitted_run_obj)
    /\ Raise([kind |-> "KeyboardInterrupt", msg |-> << >>, id |-> caught.id])
    /\ UNCHANGED <<op, args, runVars, pushVars, agentVars>>

---------------------------------------------------------------------------
\* The backend behind a RunHandle, and its owner

\* Submitted -> Running: the backend starts the process, container or job
backend_starts ==
    /\ \E h \in HandleIds :
          /\ handles[h] = "Submitted"
          /\ handles' = [handles EXCEPT ![h] = "Running"]
    /\ UNCHANGED <<op, pc, args, runVars, log, exc, outcome, pushVars, agentVars>>

\* Running -> Succeeded | Failed: exit code or completion signal
backend_exits ==
    /\ \E h \in HandleIds, st \in {"Succeeded", "Failed"} :
          /\ handles[h] = "Running"
          /\ handles' = [handles EXCEPT ![h] = st]
    /\ UNCHANGED <<op, pc, args, runVars, log, exc, outcome, pushVars, agentVars>>

\* the caller of run() owns the returned handle and may call cancel() on it
owner_cancel ==
    /\ op = "run" /\ pc = "done" /\ outcome = "returned"
    /\ caller_cancels < MaxCallerCancels
    /\ caller_cancels' = caller_cancels + 1
    /\ handles' = [handles EXCEPT ![retval] = HandleAfterCancel(@)]
    /\ Called("cancel", retval)
    /\ UNCHANGED <<op, pc, args, docker_args, injected, runner_config, backend,
                   submitted_run_obj, observed, exc, outcome, retval, caught,
                   interrupts, pushVars, agentVars>>

---------------------------------------------------------------------------
\* push_to_queue(): lines 25-31

QueueNames == {"default", "gpu"}

RunSpecs == {"spec-a", "spec-b"}

\* what api.push_to_run_queue may return
Responses == {"None", "item-1", "item-2"}

\* the Exception subclasses api.push_to_run_queue may raise
ApiErrors == {"CommError", "Timeout", "ValueError"}

CallPushToQueue ==
    /\ op = "none"
    /\ \E q \in QueueNames, rs \in RunSpecs : args' = [queue |-> q, run_spec |-> rs]
    /\ op' = "push"
    /\ pc' = "push_call"
    /\ UNCHANGED <<runVars, handles, log, exc, outcome, pushVars, agentVars>>

\* line 27: the one call to the queue service, which answers or raises
api_push_to_run_queue ==
    /\ op = "push" /\ pc = "push_call"
    /\ Called("api.push_to_run_queue", 0)
    /\ \/ \E r \in Responses :
            /\ api_result' = [kind |-> "ok", value |-> r]
            /\ pc' = "push_return"
       \/ \E e \in ApiErrors :
            /\ api_result' = [kind |-> "raised", value |-> e]
            /\ pc' = "push_except"
    /\ UNCHANGED <<op, args, runVars, handles, exc, outcome, printed, push_res,
                   agentVars>>

\* push_to_queue_except that prints and lets the exception go on
push_to_queue_except_reraised ==
    /\ op = "push" /\ pc = "push_except"
    /\ printed' = <<"Exception:", api_result.value>>
    /\ Raise(Exc(api_result.value, << >>))
    /\ UNCHANGED <<op, args, runVars, handles, log, api_result, push_res,
                   agentVars>>

\* lines 28-30: except Exception: print and return None
push_to_queue_except ==
    /\ op = "push" /\ pc = "push_except"
    /\ printed' = <<"Exception:", api_result.value>>
    /\ push_res' = "None"
    /\ outcome' = "returned"
    /\ pc' = "done"
    /\ UNCHANGED <<op, args, runVars, handles, log, exc, api_result, agentVars>>

\* line 31: return res
push_to_queue_return ==
    /\ op = "push" /\ pc = "push_return"
    /\ push_res' = api_result.value
    /\ outcome' = "returned"
    /\ pc' = "done"
    /\ UNCHANGED <<op, args, runVars, handles, log, exc, api_result, printed,
                   agentVars>>

---------------------------------------------------------------------------
\* run_agent(): lines 34-36, and the loop of the LaunchAgent it starts

Items == 1 .. MaxItems

Min(a, b) == IF a < b THEN a ELSE b

Entities == {"team"}

Projects == {"proj"}

\* lines 34-36
run_agent ==
    /\ op = "none"
    /\ \E e \in Entities, p \in Projects, qs \in {<<>>, <<"default">>} :
          args' = [entity |-> e, project |-> p, queues |-> qs]
    /\ op' = "agent"
    /\ pc' = "poll"
    /\ UNCHANGED <<runVars, handles, log, exc, outcome, pushVars, agentVars>>

\* another client puts an item on the queue the agent polls
queue_service_enqueue ==
    /\ op = "agent"
    /\ enqueued < MaxItems
    /\ enqueued' = enqueued + 1
    /\ queue' = Append(queue, enqueued + 1)
    /\ submissions' = (enqueued + 1 :> 0) @@ submissions
    /\ UNCHANGED <<op, pc, args, runVars, handles, log, exc, outcome, pushVars,
                   current, inflight, dropped, backoff>>

\* LaunchAgent.loop: one poll; the queue service hands an item out once
agent_poll ==
    /\ op = "agent" /\ pc = "poll"
    /\ IF queue # << >>
       THEN /\ current' = Head(queue)
            /\ queue' = Tail(queue)
            /\ backoff' = 0
            /\ pc' = "dispatch"
       ELSE /\ backoff' = Min(backoff + 1, MaxBackoff)
            /\ UNCHANGED <<current, queue, pc>>
    /\ UNCHANGED <<op, args, runVars, handles, log, exc, outcome, pushVars,
                   enqueued, inflight, submissions, dropped>>

\* LaunchAgent.loop: a poll fails; transient errors back off, auth errors stop
agent_poll_error ==
    /\ op = "agent" /\ pc = "poll"
    /\ \/ /\ backoff < MaxBackoff
          /\ backoff' = backoff + 1
          /\ UNCHANGED <<pc, exc, outcome>>
       \/ /\ Raise(Exc("AuthError", <<"poll">>))
          /\ UNCHANGED backoff
    /\ UNCHANGED <<op, args, runVars, handles, log, pushVars, queue, enqueued,
                   current, inflight, submissions, dropped>>

\* DispatchFailed that puts the item back on the queue for another try
DispatchFailed_requeued ==
    /\ dropped' = dropped \cup {current}
    /\ queue' = Append(queue, current)
    /\ Called("dispatch failed", 0)
    /\ UNCHANGED <<handles, inflight, submissions>>

\* LaunchAgent.loop: a failed dispatch is logged and the item dropped
DispatchFailed ==
    /\ dropped' = dropped \cup {current}
    /\ Called("dispatch failed", 0)
    /\ UNCHANGED <<handles, inflight, submissions, queue>>

\* LaunchAgent.loop: the dequeued item goes through resolve, load and submit
agent_dispatch ==
    /\ op = "agent" /\ pc = "dispatch"
    /\ \/ \E h \in HandleIds :
            /\ handles[h] = "none"
            /\ handles' = [handles EXCEPT ![h] = "Submitted"]
            /\ inflight' = inflight \cup {<<current, h>>}
            /\ submissions' = [submissions EXCEPT ![current] = @ + 1]
            /\ Called("backend.run", h)
            /\ UNCHANGED <<dropped, queue>>
       \/ DispatchFailed
    /\ current' = 0
    /\ pc' = "poll"
    /\ UNCHANGED <<op, args, runVars, exc, outcome, pushVars, enqueued, backoff>>

\* LaunchAgent.loop: a finished run leaves the in-flight set
agent_reap ==
    /\ op = "agent"
    /\ \E p \in inflight :
          /\ handles[p[2]] \in Terminal
          /\ inflight' = inflight \ {p}
    /\ UNCHANGED <<op, pc, args, runVars, handles, log, exc, outcome, pushVars,
                   queue, enqueued, current, submissions, dropped, backoff>>

Next ==
    \/ CallRun
    \/ run_docker_args
    \/ construct_run_spec
    \/ create_project_from_spec
    \/ fetch_and_validate_project
    \/ run_load_backend
    \/ backend_run
    \/ run_synchronous_check
    \/ wait_for_call_wait
    \/ wait_returns
    \/ wait_raises
    \/ wait_for_result
    \/ run_return
    \/ KeyboardInterrupt
    \/ wait_for_cancel
    \/ wait_for_reraise
    \/ backend_starts
    \/ backend_exits
    \/ owner_cancel
    \/ CallPushToQueue
    \/ api_push_to_run_queue
    \/ push_to_queue_except
    \/ push_to_queue_return
    \/ run_agent
    \/ queue_service_enqueue
    \/ agent_poll
    \/ agent_poll_error
    \/ agent_dispatch
    \/ agent_reap

Spec == Init /\ [][Next]_vars

---------------------------------------------------------------------------
\* Properties

Calls(name) == Cardinality({i \in DOMAIN log : log[i][1] = name})

CalledOn(name, h) == \E i \in DOMAIN log : log[i] = <<name, h>>

ModeError == Exc("LaunchException", <<"Non synchronous mode not supported">>)

\* C1: when a KeyboardInterrupt reaches run() while _wait_for is blocked in
\* wait(), cancel() is called on the submitted handle and on no other, at most
\* once; if that interrupt is the only one delivered, run() ends with cancel()
\* called exactly once and completed and with that same interrupt raised to
\* the caller; whenever cancel() completed, what leaves run() is the caught
\* interrupt, never a return value or an ExecutionException.
C1_InterruptInWaitCancelsThenReraises ==
    (op = "run" /\ caught.at = "wait") =>
        /\ Calls("cancel") <= 1
        /\ \A i \in DOMAIN log :
              log[i][1] = "cancel" => log[i][2] = submitted_run_obj
        /\ (pc = "done" /\ interrupts = 1) =>
              /\ Calls("cancel") = 1
              /\ CalledOn("cancel returned", submitted_run_obj)
        /\ (pc = "done" /\ Calls("cancel returned") >= 1) =>
              /\ outcome = "raised"
              /\ exc = [kind |-> "KeyboardInterrupt", msg |-> << >>,
                        id |-> caught.id]
              /\ log[Len(log)] = <<"cancel returned", submitted_run_obj>>
              /\ log[Len(log) - 1] = <<"cancel", submitted_run_obj>>

C1_Witness ==
    /\ op = "run" /\ pc = "done"
    /\ caught.at = "wait"
    /\ handles[submitted_run_obj] = "Cancelled"
    /\ CalledOn("cancel returned", submitted_run_obj)
    /\ exc.kind = "KeyboardInterrupt" /\ exc.id = caught.id

\* C2: no execution of run() ends by a KeyboardInterrupt while a handle was
\* submitted (backend.run returned it) and cancel() was never called on it.
C2_InterruptNeverLeavesUncancelledHandle ==
    (op = "run" /\ pc = "done" /\ exc.kind = "KeyboardInterrupt"
        /\ submitted_run_obj # 0) =>
        CalledOn("cancel", submitted_run_obj)

\* C3: in a run() call with synchronous=False, backend.run(project) is never
\* invoked, and when the unsupported-mode error is raised neither the project
\* fetch nor the backend load has happened.
C3_AsyncRaisesBeforeAnySubmission ==
    (op = "run" /\ args.synchronous = "False") =>
        /\ Calls("backend.run") = 0
        /\ exc = ModeError =>
              /\ Calls("fetch_and_validate_project") = 0
              /\ Calls("load_backend") = 0

\* C4: in a synchronous run() without interrupt whose wait() returned: a
\* false result ends run() with ExecutionException("Submitted run failed") and
\* no handle returned; a true result ends run() by returning the handle that
\* backend.run produced, with no exception.
C4_WaitResultDecidesRun ==
    (op = "run" /\ pc = "done" /\ args.synchronous = "True"
        /\ interrupts = 0 /\ observed # "none") =>
        /\ observed = "False" =>
              /\ outcome = "raised"
              /\ exc = Exc("ExecutionException", <<"Submitted run failed">>)
              /\ retval = 0
        /\ observed = "True" =>
              /\ outcome = "returned"
              /\ exc = NoExc
              /\ retval # 0
              /\ Calls("backend.run") = 1
              /\ CalledOn("backend.run", retval)

C4_Witness ==
    /\ op = "run" /\ pc = "done" /\ interrupts = 0
    /\ observed = "False"
    /\ handles[submitted_run_obj] = "Failed"
    /\ exc.kind = "ExecutionException"

\* C5: for a resource name that is not registered, no submit, wait or cancel
\* is ever performed; the loader returns null, and run() then ends with an
\* ExecutionException whose message names the requested resource and lists
\* every registered backend name exactly once.
C5_UnknownResourceListsRegistry ==
    (op = "run" /\ args.resource \notin Range(WANDB_RUNNERS)) =>
        /\ Calls("backend.run") = 0
        /\ Calls("wait") = 0
        /\ Calls("cancel") = 0
        /\ \A h \in HandleIds : handles[h] = "none"
        /\ Calls("load_backend") >= 1 =>
              /\ backend = "null"
              /\ pc = "done" /\ outcome = "raised"
              /\ exc.kind = "ExecutionException"
              /\ Count(exc.msg, args.resource) = 1
              /\ \A i \in DOMAIN WANDB_RUNNERS :
                    Count(exc.msg, WANDB_RUNNERS[i]) = 1

C5_Witness ==
    /\ op = "run" /\ pc = "done"
    /\ args.resource = "nonexistent"
    /\ exc.kind = "ExecutionException"
    /\ Count(exc.msg, "nonexistent") = 1

\* C6: once run() has prepared docker_args, the pairs it injected are fixed
\* by the platform and by whether the base url is locally hosted, whatever
\* the caller passed: local on linux, exactly network=host and
\* add-host=host.docker.internal:host-gateway; local on win32, exactly
\* net=host; not local, nothing on any platform. The injected pairs are in
\* docker_args.
C6_InjectedArgsFollowPlatformTable ==
    (op = "run" /\ (pc = "construct" \/ Calls("construct_run_spec") >= 1)) =>
        /\ (args.base_url \in LocalBaseUrls /\ args.platform = "linux") =>
              injected = { <<"network", "host">>,
                           <<"add-host", "host.docker.internal:host-gateway">> }
        /\ (args.base_url \in LocalBaseUrls /\ args.platform = "win32") =>
              injected = { <<"net", "host">> }
        /\ (args.base_url \notin LocalBaseUrls) =>
              /\ injected = {}
              /\ docker_args = IF args.docker_args.none THEN EmptyMap
                               ELSE args.docker_args.map
        /\ \A kv \in injected :
              kv[1] \in DOMAIN docker_args /\ docker_args[kv[1]] = kv[2]

C6_Witness ==
    /\ op = "run" /\ pc = "construct"
    /\ args.platform = "win32"
    /\ args.base_url \in LocalBaseUrls
    /\ args.docker_args.map = ("net" :> "none" @@ "add-host" :> "db:10.0.0.2")
    /\ docker_args = ("net" :> "host" @@ "add-host" :> "db:10.0.0.2")

\* C7: push_to_queue never ends by raising: it calls the queue service exactly
\* once; when that call raises an Exception it prints it and returns None, and
\* when the call answers it returns the answer unchanged.
C7_PushToQueueNeverRaises ==
    (op = "push") =>
        /\ outcome # "raised"
        /\ exc = NoExc
        /\ Calls("api.push_to_run_queue") <= 1
        /\ pc = "done" =>
              /\ outcome = "returned"
              /\ Calls("api.push_to_run_queue") = 1
              /\ api_result.kind = "raised" =>
                    /\ push_res = "None"
                    /\ printed = <<"Exception:", api_result.value>>
              /\ api_result.kind = "ok" =>
                    /\ push_res = api_result.value
                    /\ printed = << >>

C7_Witness ==
    /\ op = "push" /\ pc = "done"
    /\ api_result = [kind |-> "raised", value |-> "CommError"]
    /\ push_res = "None"
    /\ outcome = "returned"

Rank(st) ==
    CASE st = "none" -> 0
      [] st = "Submitted" -> 1
      [] st = "Running" -> 2
      [] OTHER -> 3

C10_AtMostOneSubmissionPerItem ==
    (op = "agent") =>
        /\ \A i \in DOMAIN submissions :
              /\ submissions[i] <= 1
              /\ Cardinality({p \in inflight : p[1] = i}) <= 1
        /\ Calls("backend.run")
              = Cardinality({i \in DOMAIN submissions : submissions[i] = 1})
        /\ \A i \in dropped :
              /\ submissions[i] = 0
              /\ i # current
              /\ i \notin Range(queue)
              /\ \A p \in inflight : p[1] # i

C10_Witness ==
    /\ op = "agent"
    /\ 1 \in dropped
    /\ enqueued = 2
    /\ submissions[2] = 1
    /\ queue = << >> /\ current = 0

\* the stages of one run() call, in the order of the source
StageOrder ==
    <<"construct_run_spec", "create_project_from_spec",
      "fetch_and_validate_project", "load_backend", "backend.run", "wait">>

IsStage(e) == e[1] \in Range(StageOrder)

\* the stage calls made so far, in order
StageLog == [i \in DOMAIN SelectSeq(log, IsStage) |-> SelectSeq(log, IsStage)[i][1]]

\* C11: the stages a run() call has performed are always an initial part of
\* build run spec, create project, fetch and validate project, load backend,
\* submit, wait, so each happens at most once and in that order; and a stage
\* that raised is the last stage performed: after a validation failure no
\* backend is loaded and nothing is submitted.
C11_StagesInOrderAndFailureStops ==
    (op = "run") =>
        /\ Len(StageLog) <= Len(StageOrder)
        /\ StageLog = SubSeq(StageOrder, 1, Len(StageLog))
        /\ (exc.kind = "LaunchException" /\ exc # ModeError) =>
              /\ pc = "done" /\ outcome = "raised"
              /\ StageLog[Len(StageLog)] = exc.msg[2]
              /\ Calls("load_backend") = 0
              /\ Calls("backend.run") = 0
              /\ \A h \in HandleIds : handles[h] = "none"
        /\ (exc.kind = "ExecutionException" /\ Calls("wait") = 0) =>
              /\ pc = "done"
              /\ StageLog[Len(StageLog)] \in {"load_backend", "backend.run"}
              /\ submitted_run_obj = 0

C11_Witness ==
    /\ op = "run" /\ pc = "done"
    /\ exc = Exc("LaunchException",
                 <<"ValidationError", "fetch_and_validate_project">>)
    /\ StageLog = <<"construct_run_spec", "create_project_from_spec",
                    "fetch_and_validate_project">>

SubmissionFailure == Exc("ExecutionException", <<"SubmissionFailure">>)

\* C12: a run() call invokes backend.run(project) at most once; when that
\* call raises, its exception is what leaves run(), the failed call is the
\* last call made, and no handle exists, so there is no second submit, no
\* wait() and no cancel().
C12_SubmissionFailureNotRetried ==
    (op = "run") =>
        /\ Calls("backend.run") <= 1
        /\ CalledOn("backend.run", 0) =>
              /\ pc = "done" /\ outcome = "raised"
              /\ exc = SubmissionFailure
              /\ log[Len(log)] = <<"backend.run", 0>>
              /\ Calls("wait") = 0
              /\ Calls("cancel") = 0
              /\ submitted_run_obj = 0 /\ retval = 0
              /\ \A h \in HandleIds : handles[h] = "none"

C12_Witness ==
    /\ op = "run" /\ pc = "done"
    /\ args.synchronous = "True"
    /\ backend = "local"
    /\ CalledOn("backend.run", 0)
    /\ exc = SubmissionFailure

\* the caller's docker_args as a dict (None counts as the empty dict)
CallerMap == IF args.docker_args.none THEN EmptyMap ELSE args.docker_args.map

InjectedKeys == {kv[1] : kv \in injected}

\* C13: whatever the resource name, registered or not, the runner
\* configuration handed to the backend loader has exactly the two keys for
\* synchronous and docker args; the first holds the synchronous argument of
\* run(), the second the docker args after injection (the caller's pairs with
\* the injected pairs on top); with no docker args given and a base url that
\* is not local, the second is the empty mapping.
C13_RunnerConfigHasTheTwoKeys ==
    (op = "run" /\ Calls("load_backend") >= 1) =>
        /\ DOMAIN runner_config = {PROJECT_SYNCHRONOUS, PROJECT_DOCKER_ARGS}
        /\ runner_config[PROJECT_SYNCHRONOUS] = args.synchronous
        /\ runner_config[PROJECT_DOCKER_ARGS] =
              [k \in (DOMAIN CallerMap) \cup InjectedKeys |->
                  IF k \in InjectedKeys
                  THEN (CHOOSE kv \in injected : kv[1] = k)[2]
                  ELSE CallerMap[k]]
        /\ (args.docker_args.none /\ args.base_url \notin LocalBaseUrls) =>
              runner_config[PROJECT_DOCKER_ARGS] = EmptyMap

C13_Witness ==
    /\ op = "run" /\ pc = "done"
    /\ args.resource = "nonexistent"
    /\ args.synchronous = "None"
    /\ args.docker_args.none
    /\ args.base_url \notin LocalBaseUrls
    /\ Calls("load_backend") = 1
    /\ runner_config = (PROJECT_SYNCHRONOUS :> "None" @@ PROJECT_DOCKER_ARGS :> EmptyMap)

RunFailed == Exc("ExecutionException", <<"Submitted run failed">>)

\* C15: run() calls cancel() only from the except clause of _wait_for, after a
\* KeyboardInterrupt raised inside the try block around wait(), and then on
\* the submitted handle; when the ExecutionException of a failed run or a
\* non-interrupt exception of wait() leaves run(), cancel() was never called
\* and the exception is the one that was raised; without any interrupt, a
\* wait() that returned false ends run() with that ExecutionException.
C15_CancelOnlyOnInterrupt ==
    (op = "run") =>
        /\ Calls("cancel") > caller_cancels =>
              /\ caught.id # 0
              /\ InTry(caught.at)
              /\ interrupts >= 1
              /\ CalledOn("wait", submitted_run_obj)
              /\ CalledOn("cancel", submitted_run_obj)
              /\ exc.kind \in {"none", "KeyboardInterrupt"}
        /\ exc = RunFailed =>
              /\ pc = "done" /\ outcome = "raised"
              /\ observed = "False"
              /\ caught.id = 0
              /\ Calls("cancel") = 0
        /\ exc.kind = "CommError" =>
              /\ pc = "done" /\ outcome = "raised"
              /\ exc = Exc("CommError", <<"wait failed">>)
              /\ caught.id = 0
              /\ Calls("cancel") = 0
        /\ (pc = "done" /\ interrupts = 0 /\ observed = "False") =>
              exc = RunFailed

C15_Witness ==
    /\ op = "run" /\ pc = "done"
    /\ exc = Exc("CommError", <<"wait failed">>)
    /\ handles[submitted_run_obj] = "Running"
    /\ Calls("wait") = 1
    /\ Calls("cancel") = 0

\* C16: after run() prepared docker_args, its keys are the caller's keys and
\* the injected keys; every caller pair whose key was not injected is kept
\* and every injected key holds the injected value, also over a value of the
\* caller; with a local base url on a platform that is none of win32, linux,
\* linux2 exactly network=host is injected; with a base url that is not local
\* the docker args in the runner configuration are the caller's.
C16_InjectionKeepsCallerArgs ==
    (op = "run" /\ (pc = "construct" \/ Calls("construct_run_spec") >= 1)) =>
        /\ DOMAIN docker_args = (DOMAIN CallerMap) \cup InjectedKeys
        /\ \A k \in (DOMAIN CallerMap) \ InjectedKeys :
              docker_args[k] = CallerMap[k]
        /\ \A kv \in injected : docker_args[kv[1]] = kv[2]
        /\ (args.base_url \in LocalBaseUrls
              /\ args.platform \notin {"win32", "linux", "linux2"}) =>
              injected = { <<"network", "host">> }
        /\ (args.base_url \notin LocalBaseUrls /\ Calls("load_backend") >= 1) =>
              runner_config[PROJECT_DOCKER_ARGS] = CallerMap

C16_Witness ==
    /\ op = "run" /\ Calls("load_backend") = 1
    /\ args.platform = "darwin"
    /\ args.base_url \in LocalBaseUrls
    /\ CallerMap = ("network" :> "bridge" @@ "rm" :> "true")
    /\ injected = { <<"network", "host">> }
    /\ runner_config[PROJECT_DOCKER_ARGS] = ("network" :> "host" @@ "rm" :> "true")

====
